---- MODULE Spec2Model ----
(***************************************************************************)
(* Model of the plot functions of bmp-js (src/bmp-plot.js).                *)
(*                                                                         *)
(* The state is a heap of two BMPJS resources (1: the parent/destination,  *)
(* 2: the child/source), the font atlas bmp_plot_text reads, and a record  *)
(* of the last call: its name, its arguments, the heap before it, its      *)
(* return value and the calls it issued to bmp_resource_set_pixel and      *)
(* bmp_plot_line.                                                          *)
(* A behaviour is a caller making up to MaxCalls calls: one plot call and   *)
(* bmp_plot_clear calls before or after it.                                *)
(***************************************************************************)
EXTENDS Integers, Sequences, FiniteSets, TLC

VARIABLES heap,     \* resource id -> [width, height, data]
          font,     \* [width, height] of a glyph cell of the font atlas
          pre,      \* the heap before the last call
          op,       \* name of the last call ("none" before any call)
          args,     \* arguments of the last call
          ret,      \* return value of the last call
          unit,     \* coordinates in pixelCalls/samples are multiples of 1/unit
          pixelCalls, \* bmp_resource_set_pixel calls issued by the last call
          samples,  \* bmp_plot_line: the points (x, y) the loop visited
          step,     \* bmp_plot_line: <<ax, ay>> or "NaN"
          glyphs,   \* bmp_plot_text: glyph origins at the time they were drawn
          lineCalls, \* shapes: bmp_plot_line calls issued by the last call
          calls,    \* number of calls made
          plotted   \* the plot call of the behaviour has been made

vars == <<heap, font, pre, op, args, ret, unit, pixelCalls, samples, step, glyphs,
          lineCalls, calls, plotted>>

----------------------------------------------------------------------------
(* Bounds of the model *)

MaxW     == 3   \* width of the destination resource
MaxH     == 2   \* height of the destination resource
MaxCalls == 2   \* calls per behaviour
MaxLen   == 3   \* length of the strings bmp_plot_text lays out
MaxFontW == 2   \* width of a glyph cell of the atlas
MaxFontH == 1   \* height of a glyph cell of the atlas

----------------------------------------------------------------------------
(* Small helpers *)

Max(a, b) == IF a > b THEN a ELSE b
Min(a, b) == IF a < b THEN a ELSE b

Parent == 1
Child  == 2
Ids    == {Parent, Child}

White == <<255, 255, 255>>
Black == <<0, 0, 0>>

Pixels(res) == (0 .. res.width - 1) \X (0 .. res.height - 1)

----------------------------------------------------------------------------
(* The resource interface the plot functions call (bmp.js, not in src/)    *)

\* clamp(v, lo, hi)
clamp(v, lo, hi) == Max(lo, Min(v, hi))

\* A resource whose pixels are pairwise different, none of them pure
\* white or pure black: a created resource after set_pixel calls.
Gradient(width, height, tag) ==
    [width |-> width, height |-> height,
     data |-> [q \in (0 .. width - 1) \X (0 .. height - 1) |->
                  <<tag, q[1] + 1, q[2] + 1>>]]

\* x div u rounded toward minus infinity (u > 0)
Floor(x, u) == x \div u

\* whether (x/u, y/u) lies inside [0, width) x [0, height)
InBounds(res, x, y, u) ==
    /\ 0 <= x /\ x < res.width * u
    /\ 0 <= y /\ y < res.height * u

\* an 8-bit unsigned channel keeps a value modulo 256
Store(c) == <<c[1] % 256, c[2] % 256, c[3] % 256>>

\* bmp_resource_set_pixel(res, x/u, y/u, c): no-op out of bounds
bmp_resource_set_pixel(res, x, y, c, u) ==
    IF InBounds(res, x, y, u)
    THEN [res EXCEPT !.data[<<Floor(x, u), Floor(y, u)>>] = Store(c)]
    ELSE res

\* bmp_resource_get_pixel(res, x, y), defined for in-bounds (x, y)
bmp_resource_get_pixel(res, x, y) == res.data[<<x, y>>]

\* the resource after the set_pixel calls cs[1..Len(cs)], in order
RECURSIVE SetPixels(_, _, _, _)
SetPixels(res, cs, i, u) ==
    IF i > Len(cs) THEN res
    ELSE SetPixels(bmp_resource_set_pixel(res, cs[i].x, cs[i].y, cs[i].c, u),
                   cs, i + 1, u)

----------------------------------------------------------------------------
(* bmp_plot_rect *)

\* the (x2, y2) the two loops visit, in loop order (y2 outer, x2 inner)
RectVisitedInclusive(x, y, w, h) ==
    LET cols == Max(w + 1, 0)
        rows == Max(h + 1, 0)
    IN  [k \in 1 .. cols * rows |->
            <<x + ((k - 1) % cols), y + ((k - 1) \div cols)>>]
RectVisited(x, y, w, h) ==
    LET cols == Max(w, 0)
        rows == Max(h, 0)
    IN  [k \in 1 .. cols * rows |->
            <<x + ((k - 1) % cols), y + ((k - 1) \div cols)>>]

\* the guard of the write: only the upper bounds are tested
RectGuard(res, x2, y2) == res.width > x2 /\ res.height > y2

\* the set_pixel calls bmp_plot_rect issues, in order
RectCalls(res, x, y, w, h, c) ==
    LET v    == RectVisited(x, y, w, h)
        keep == SelectSeq(v, LAMBDA q : RectGuard(res, q[1], q[2]))
    IN  [k \in 1 .. Len(keep) |-> [x |-> keep[k][1], y |-> keep[k][2], c |-> c]]

bmp_plot_rect(res, x, y, w, h, c) ==
    SetPixels(res, RectCalls(res, x, y, w, h, c), 1, 1)

----------------------------------------------------------------------------
(* bmp_plot_clear *)

ClearCalls(res, c) ==
    [k \in 1 .. res.width * res.height |->
        [x |-> (k - 1) % res.width, y |-> (k - 1) \div res.width, c |-> c]]

\* every (x, y) of the two loops is in bounds, so every pixel is overwritten
bmp_plot_clear(res, c) ==
    [res EXCEPT !.data = [q \in DOMAIN res.data |-> Store(c)]]

----------------------------------------------------------------------------
(* bmp_plot_resource *)

\* structuredClone(resource_c): a value-identical copy sharing no storage
structuredClone(res) == res

\* w = clamp(w, -1, dim); if (w == -1) w = dim
EffectiveSizeNoDefault(w, dim) == clamp(w, -1, dim)
EffectiveSize(w, dim) ==
    LET cw == clamp(w, -1, dim)
    IN  IF cw = -1 THEN dim ELSE cw

\* the (x1, y1) the two loops visit, in loop order (x1 outer, y1 inner)
CopyVisited(w, h) ==
    LET cols == Max(w, 0)
        rows == Max(h, 0)
    IN  [k \in 1 .. cols * rows |-> <<(k - 1) \div rows, (k - 1) % rows>>]

\* what the name resource_c denotes inside the loops: line 137 rebinds it
\* to the clone, so the loops never read the caller's (live) resource
ChildReadLive(snapshot, live) == live
ChildRead(snapshot, live) == snapshot

\* the guard of the write: only the upper bounds are tested
CopyGuard(res, x, y) == res.width > x /\ res.height > y

\* the loops from visit i on; st = [heap, log] is the state reached so far
RECURSIVE CopyLoop(_, _, _, _, _, _, _, _)
CopyLoop(st, snapshot, pid, cid, x, y, v, i) ==
    IF i > Len(v) THEN st
    ELSE LET x1 == v[i][1]
             y1 == v[i][2]
         IN  IF CopyGuard(st.heap[pid], x1 + x, y1 + y)
             THEN LET c == bmp_resource_get_pixel(
                               ChildRead(snapshot, st.heap[cid]), x1, y1)
                      nh == [st.heap EXCEPT ![pid] =
                               bmp_resource_set_pixel(@, x1 + x, y1 + y, c, 1)]
                      nl == Append(st.log, [x |-> x1 + x, y |-> y1 + y, c |-> c])
                  IN  CopyLoop([heap |-> nh, log |-> nl],
                               snapshot, pid, cid, x, y, v, i + 1)
             ELSE CopyLoop(st, snapshot, pid, cid, x, y, v, i + 1)

\* the heap and the set_pixel calls after bmp_plot_resource(pid, cid, x, y, w, h)
bmp_plot_resource(hp, pid, cid, x, y, w, h) ==
    LET snapshot == structuredClone(hp[cid])
        ew == EffectiveSize(w, snapshot.width)
        eh == EffectiveSize(h, snapshot.height)
    IN  CopyLoop([heap |-> hp, log |-> <<>>], snapshot, pid, cid, x, y,
                 CopyVisited(ew, eh), 1)

----------------------------------------------------------------------------
(* bmp_plot_line *)

\* The precision p is held in tenths: p = 0.1 is 1, p = 2 is 20.
PScale == 10
PMin   == 1
PMax   == 20

\* Math.sqrt on a perfect square.  The model calls bmp_plot_line on segments
\* of integer length only; the points x += ax, y += ay are then held as
\* exact fractions (the rounding of each addition, below 1e-13 here, is not
\* modelled), the number of iterations is that of the binary64 arithmetic.
Isqrt(n) == CHOOSE r \in 0 .. n : r * r <= n /\ n < (r + 1) * (r + 1)

IntegerLength(dx, dy) ==
    LET d == dx * dx + dy * dy IN Isqrt(d) * Isqrt(d) = d

\* p = clamp(p, 0.1, 2)
LinePrecision(p0) == clamp(p0, PMin, PMax)

\* l = Math.sqrt(x * x + y * y) * p is a product of two binary64 numbers.
\* The square root of a perfect square is exact.  p, t tenths, is the double
\* nearest to t / 10: m / 2^s with 2^52 <= m < 2^53.  Binary64Exponent[t] is
\* 52 - s, that is floor(log2(t / 10)), and Binary64Error[t] is
\* 10 * m - t * 2^s, so that the double is t / 10 + Binary64Error[t] / (10 * 2^s).
Binary64Error ==
    <<4, 4, -2, 4, 0, -2, -4, 4, 2, 0, 4, -2, 2, -4, 0, 4, -2, 2, -4, 0>>
Binary64Exponent ==
    <<-4, -3, -2, -2, -1, -1, -1, -1, -1, 0, 0, 0, 0, 0, 0, 0, 0, 0, 0, 1>>

RECURSIVE Pow2(_)
Pow2(e) == IF e <= 0 THEN 1 ELSE 2 * Pow2(e - 1)

\* floor(log2(k)), k >= 1
RECURSIVE Log2(_)
Log2(k) == IF k <= 1 THEN 0 ELSE 1 + Log2(k \div 2)

\* len * p is rounded to the nearest double.  Where the exact len * t / 10 is
\* an integer k, the product of the doubles is k + len * Binary64Error[t] /
\* (10 * 2^s), and it is rounded to a double above k when that excess is more
\* than half the spacing 2^(Log2(k) - 52) of the doubles at k (a tie goes to
\* k, whose significand is even).
ProductRoundsUp(len, p) ==
    /\ len > 0
    /\ p \in DOMAIN Binary64Error
    /\ (len * p) % PScale = 0
    /\ len * Binary64Error[p] * Pow2(Binary64Exponent[p] + 5)
          > PScale * Pow2(Log2((len * p) \div PScale) + 4)

\* the loop condition i < l, where l is the double len * p: i is below l
\* when it is below the exact product, or equal to it and l was rounded up
LineCondLe(i, len, p) == i * PScale <= len * p
LineCond(i, len, p) ==
    \/ i * PScale < len * p
    \/ i * PScale = len * p /\ ProductRoundsUp(len, p)

\* the guard of the write: only the upper bounds are tested
LineGuardNone(res, x, y, u) == TRUE
LineGuard(res, x, y, u) == res.width * u > x /\ res.height * u > y

\* the number of iterations: the first i at which the loop condition fails
LineCount(len, p) ==
    CHOOSE n \in 0 .. len * p + 1 :
        /\ ~LineCond(n, len, p)
        /\ \A i \in 0 .. n - 1 : LineCond(i, len, p)

\* the points (x, y) of the n iterations, in order: iteration i is reached
\* after i additions of the step (ax, ay) to (x1, y1); all in units of 1/u
LineVisited(x1, y1, ax, ay, n) ==
    [k \in 1 .. n |-> <<x1 + (k - 1) * ax, y1 + (k - 1) * ay>>]

\* the set_pixel calls bmp_plot_line issues, in order
LineCalls(res, v, c, u) ==
    LET keep == SelectSeq(v, LAMBDA q : LineGuard(res, q[1], q[2], u))
    IN  [k \in 1 .. Len(keep) |-> [x |-> keep[k][1], y |-> keep[k][2], c |-> c]]

\* bmp_plot_line(id, x1, y1, x2, y2, c, p0): the heap, the set_pixel calls,
\* the points visited, the step and the unit of the coordinates.
\* With l = 0 the step is 0/0 (NaN) and the loop body is never entered.
bmp_plot_line(hp, id, x1, y1, x2, y2, c, p0) ==
    LET p   == LinePrecision(p0)
        dx  == x2 - x1
        dy  == y2 - y1
        len == Isqrt(dx * dx + dy * dy)
        u   == IF len = 0 THEN 1 ELSE len * p
        ax  == IF len = 0 THEN 0 ELSE PScale * dx
        ay  == IF len = 0 THEN 0 ELSE PScale * dy
        v   == LineVisited(x1 * u, y1 * u, ax, ay, LineCount(len, p))
        cs  == LineCalls(hp[id], v, c, u)
    IN  [heap |-> [hp EXCEPT ![id] = SetPixels(@, cs, 1, u)],
         log |-> cs, samples |-> v, unit |-> u,
         step |-> IF len = 0 THEN "NaN" ELSE <<ax, ay>>]

----------------------------------------------------------------------------
(* bmp_plot_circle, bmp_plot_arrow_up/down/left/right, bmp_plot_triangle *)

\* the point tables live in a 512 x 512 space
TableScale == 512

CirclePoints ==
    << <<247, 1>>, <<312, 8>>, <<360, 23>>, <<403, 47>>, <<439, 78>>,
       <<469, 114>>, <<490, 153>>, <<507, 205>>, <<511, 257>>, <<505, 312>>,
       <<490, 360>>, <<466, 403>>, <<435, 439>>, <<399, 469>>, <<360, 490>>,
       <<308, 507>>, <<256, 511>>, <<201, 505>>, <<153, 490>>, <<110, 466>>,
       <<74, 435>>, <<44, 399>>, <<23, 360>>, <<6, 308>>, <<2, 256>>,
       <<8, 201>>, <<23, 153>>, <<47, 110>>, <<78, 74>>, <<114, 44>>,
       <<153, 23>>, <<205, 6>>, <<247, 1>> >>

ArrowUpPoints ==
    << <<256, 1>>, <<512, 256>>, <<384, 256>>, <<384, 512>>, <<128, 512>>,
       <<128, 256>>, <<1, 256>>, <<256, 1>> >>

ArrowDownPoints ==
    << <<128, 0>>, <<384, 0>>, <<384, 256>>, <<512, 256>>, <<256, 512>>,
       <<0, 256>>, <<128, 256>>, <<128, 0>> >>

ArrowLeftPoints ==
    << <<0, 256>>, <<256, 0>>, <<256, 128>>, <<512, 128>>, <<512, 384>>,
       <<256, 384>>, <<256, 512>>, <<0, 256>> >>

ArrowRightPoints ==
    << <<0, 128>>, <<256, 128>>, <<256, 0>>, <<512, 256>>, <<256, 512>>,
       <<256, 384>>, <<0, 384>>, <<0, 128>> >>

TrianglePoints ==
    << <<256, 0>>, <<512, 512>>, <<0, 512>>, <<256, 0>> >>

\* the bounds of the loops "for (let i = 1; i < n; i++)"
CircleN   == 33
ArrowN    == 8
TriangleN == 4

\* The bmp_plot_line calls of the loop, in order; the loop's 0-based
\* points[i - 1], points[i] are points[i], points[i + 1] here.  End points
\* px / 512 * w + x are held in units of 1/512: px * w + 512 * x.
ShapeLinesFromSecond(points, n, x, y, w, h, c, p) ==
    [i \in 1 .. n - 2 |->
        [x1 |-> points[i + 1][1] * w + TableScale * x,
         y1 |-> points[i + 1][2] * h + TableScale * y,
         x2 |-> points[i + 2][1] * w + TableScale * x,
         y2 |-> points[i + 2][2] * h + TableScale * y,
         c |-> c, p |-> p]]
ShapeLines(points, n, x, y, w, h, c, p) ==
    [i \in 1 .. n - 1 |->
        [x1 |-> points[i][1] * w + TableScale * x,
         y1 |-> points[i][2] * h + TableScale * y,
         x2 |-> points[i + 1][1] * w + TableScale * x,
         y2 |-> points[i + 1][2] * h + TableScale * y,
         c |-> c, p |-> p]]

bmp_plot_circle(x, y, w, h, c, p) ==
    ShapeLines(CirclePoints, CircleN, x, y, w, h, c, p)
bmp_plot_arrow_up(x, y, w, h, c, p) ==
    ShapeLines(ArrowUpPoints, ArrowN, x, y, w, h, c, p)
bmp_plot_arrow_down(x, y, w, h, c, p) ==
    ShapeLines(ArrowDownPoints, ArrowN, x, y, w, h, c, p)
bmp_plot_arrow_left(x, y, w, h, c, p) ==
    ShapeLines(ArrowLeftPoints, ArrowN, x, y, w, h, c, p)
bmp_plot_arrow_right(x, y, w, h, c, p) ==
    ShapeLines(ArrowRightPoints, ArrowN, x, y, w, h, c, p)
bmp_plot_triangle(x, y, w, h, c, p) ==
    ShapeLines(TrianglePoints, TriangleN, x, y, w, h, c, p)

Shapes == {"circle", "arrow_up", "arrow_down", "arrow_left", "arrow_right",
           "triangle"}

\* the bmp_plot_line calls the shape function named sh issues
ShapeCalls(sh, x, y, w, h, c, p) ==
    CASE sh = "circle"      -> bmp_plot_circle(x, y, w, h, c, p)
      [] sh = "arrow_up"    -> bmp_plot_arrow_up(x, y, w, h, c, p)
      [] sh = "arrow_down"  -> bmp_plot_arrow_down(x, y, w, h, c, p)
      [] sh = "arrow_left"  -> bmp_plot_arrow_left(x, y, w, h, c, p)
      [] sh = "arrow_right" -> bmp_plot_arrow_right(x, y, w, h, c, p)
      [] sh = "triangle"    -> bmp_plot_triangle(x, y, w, h, c, p)

----------------------------------------------------------------------------
(* bmp_plot_text *)

\* the atlas holds the 96 glyph cells of the codes 0x20 to 0x7F
FontCells == 96

Transparent == <<-1, -1, -1>>

\* the colour written for an atlas pixel, or skip (the "continue")
Draw(c) == [skip |-> FALSE, c |-> c]
Skip    == [skip |-> TRUE, c |-> Transparent]

\* f = (fr, fg, fb), b = (br, bg, bb); the background test reads bg twice
GlyphColour(pixel_c, f, b) ==
    IF pixel_c = White
    THEN IF f[1] # -1 /\ f[2] # -1 /\ f[3] # -1 THEN Draw(f) ELSE Skip
    ELSE IF pixel_c = Black
         THEN IF b[1] # -1 /\ b[2] # -1 /\ b[2] # -1 THEN Draw(b) ELSE Skip
         ELSE Draw(pixel_c)

\* char_x_offset: codes outside [0x20, 0x7E] take the last cell
CharXOffset(char_code, font_width, font_chars) ==
    IF 32 > char_code \/ char_code > 126
    THEN font_width * (font_chars - 1)
    ELSE (char_code - 32) * font_width

IsNewline(char_code) == char_code = 10 \/ char_code = 13

\* the word-wrap test
WrapsGe(wrap, x_offset, font_width, width) ==
    wrap /\ x_offset + font_width >= width
Wraps(wrap, x_offset, font_width, width) ==
    wrap /\ x_offset + font_width > width

\* the guard of the write: only the upper bounds are tested
TextGuard(res, x, y) == res.width > x /\ res.height > y

\* the (lx, ly) the two glyph loops visit, in loop order (ly outer, lx inner)
GlyphVisited(font_width, font_height) ==
    [k \in 1 .. font_width * font_height |->
        <<(k - 1) % font_width, (k - 1) \div font_width>>]

\* the glyph loops from visit i on: the glyph cell at char_x_offset of the
\* atlas is drawn at (x_offset, y_offset)
RECURSIVE GlyphLoop(_, _, _, _, _, _, _, _, _, _)
GlyphLoop(st, pid, resource_c, char_x_offset, x_offset, y_offset, f, b, v, i) ==
    IF i > Len(v) THEN st
    ELSE LET lx == v[i][1]
             ly == v[i][2]
             pixel_c == bmp_resource_get_pixel(resource_c, lx + char_x_offset, ly)
             col == GlyphColour(pixel_c, f, b)
         IN  IF ~col.skip /\ TextGuard(st.heap[pid], x_offset + lx, y_offset + ly)
             THEN GlyphLoop(
                    [heap |-> [st.heap EXCEPT ![pid] =
                                 bmp_resource_set_pixel(@, x_offset + lx,
                                                        y_offset + ly, col.c, 1)],
                     log |-> Append(st.log, [x |-> x_offset + lx,
                                             y |-> y_offset + ly, c |-> col.c])],
                    pid, resource_c, char_x_offset, x_offset, y_offset, f, b, v,
                    i + 1)
             ELSE GlyphLoop(st, pid, resource_c, char_x_offset, x_offset, y_offset,
                            f, b, v, i + 1)

\* the cursor after a newline code: x_offset = x_offset_start
NewlineXKeep(x_offset, x_offset_start) == x_offset
NewlineX(x_offset, x_offset_start) == x_offset_start

\* the character loop from text_index on (1-based); st = [heap, log, glyphs],
\* glyphs being the (x_offset, y_offset) each glyph was drawn at
RECURSIVE TextLoop(_, _, _, _, _, _, _, _, _, _, _)
TextLoop(st, pid, resource_c, x, text, wrap, f, b, x_offset, y_offset, text_index) ==
    IF text_index > Len(text) THEN st
    ELSE LET font_width  == resource_c.width \div FontCells
             font_height == resource_c.height
             font_chars  == resource_c.width \div font_width
             char_code   == text[text_index]
         IN  IF IsNewline(char_code)
             THEN TextLoop(st, pid, resource_c, x, text, wrap, f, b,
                           NewlineX(x_offset, x), y_offset + font_height,
                           text_index + 1)
             ELSE LET wr == Wraps(wrap, x_offset, font_width, st.heap[pid].width)
                      xo == IF wr THEN x ELSE x_offset
                      yo == IF wr THEN y_offset + font_height ELSE y_offset
                      g  == GlyphLoop([heap |-> st.heap, log |-> st.log],
                                      pid, resource_c,
                                      CharXOffset(char_code, font_width, font_chars),
                                      xo, yo, f, b,
                                      GlyphVisited(font_width, font_height), 1)
                  IN  TextLoop([heap |-> g.heap, log |-> g.log,
                                glyphs |-> Append(st.glyphs,
                                    [code |-> char_code, index |-> text_index,
                                     x |-> xo, y |-> yo,
                                     cursor |-> x_offset, wrapped |-> wr])],
                               pid, resource_c, x, text, wrap, f, b,
                               xo + font_width, yo, text_index + 1)

\* text is the sequence of the string's char codes; resource_c is the font
\* atlas, a resource other than the destination, which the call only reads
bmp_plot_text(hp, pid, resource_c, x, y, text, wrap, f, b) ==
    TextLoop([heap |-> hp, log |-> <<>>, glyphs |-> <<>>],
             pid, resource_c, x, text, wrap, f, b, x, y, 1)

----------------------------------------------------------------------------
(* Input sets *)

XRange == -2 .. MaxW
YRange == -2 .. MaxH
WRange == -1 .. MaxW + 2
HRange == -1 .. MaxH + 2

RectColour == <<10, 20, 30>>
ClearColours == {Black, White}

\* bmp_plot_resource: offsets and requested sizes
CopyXRange == -1 .. MaxW - 1
CopyYRange == -1 .. MaxH
CopyWRange == -3 .. MaxW + 1
CopyHRange == -2 .. MaxW + 1

\* bmp_plot_line: end points (segments of integer length) and precisions
LineXRange == -1 .. MaxW
\* a far end point: segments long enough for len * p to be rounded
LineFarX == {50}
LineYRange == -2 .. MaxH
LinePRange == {-5, 0, 1, 3, 5, 7, 10, 11, 15, 20, 25}
LineColour == <<40, 50, 60>>

\* shapes: offsets, sizes (negative and zero included) and precisions
ShapeXRange == -1 .. 1
ShapeYRange == -1 .. 0
ShapeWRange == -1 .. MaxW + 1
ShapeHRange == -1 .. MaxH + 1
ShapePRange == {0, 10, 25}
ShapeColour == <<70, 80, 90>>

\* bmp_plot_text: strings of "A", "\n", "\r" and a code out of range, laid
\* out with the default colours; and one-glyph strings with every colour pair
TextCodes == {65, 10, 13, 200}
Strings(n) == UNION {[1 .. k -> TextCodes] : k \in 0 .. n}
TextXRange == -1 .. 0
Foregrounds == {White, Transparent, <<7, -1, 7>>, <<7, 7, -1>>}
Backgrounds == {Transparent, <<0, 0, 9>>, <<3, 3, -1>>, <<3, -1, 3>>, <<-1, 3, 3>>}
TextInputs ==
    {[x |-> x, y |-> 0, text |-> t, wrap |-> wr, f |-> White, b |-> Transparent] :
        x \in TextXRange, t \in Strings(MaxLen), wr \in BOOLEAN}
    \cup
    {[x |-> 0, y |-> 0, text |-> <<code>>, wrap |-> TRUE, f |-> f, b |-> b] :
        code \in {65, 66, 200}, f \in Foregrounds, b \in Backgrounds}

NoArgs == [none |-> TRUE]

----------------------------------------------------------------------------
(* Actions *)

\* a font atlas of 96 cells in which white, black and grey pixels alternate
Atlas(font_width, font_height) ==
    [width |-> FontCells * font_width, height |-> font_height,
     data |-> [q \in (0 .. FontCells * font_width - 1) \X (0 .. font_height - 1) |->
                 CASE (q[1] + q[2]) % 3 = 0 -> White
                   [] (q[1] + q[2]) % 3 = 1 -> Black
                   [] OTHER -> <<128, 128, 128>>]]

\* the font atlas of the state
FontAtlas == Atlas(font.width, font.height)


Record(o, a, r, u, pc, s, st, g, lc) ==
    /\ font' = font
    /\ pre' = heap
    /\ op' = o
    /\ args' = a
    /\ ret' = r
    /\ unit' = u
    /\ pixelCalls' = pc
    /\ samples' = s
    /\ step' = st
    /\ glyphs' = g
    /\ lineCalls' = lc
    /\ calls' = calls + 1

PlotClear ==
    /\ calls < MaxCalls
    /\ \E id \in Ids, c \in ClearColours :
          /\ heap' = [heap EXCEPT ![id] = bmp_plot_clear(heap[id], c)]
          /\ Record("clear", [id |-> id, c |-> c], TRUE, 1,
                    ClearCalls(heap[id], c), <<>>, <<>>, <<>>, <<>>)
    /\ UNCHANGED plotted

PlotRect ==
    /\ ~plotted /\ calls < MaxCalls
    /\ plotted' = TRUE
    /\ \E x \in XRange, y \in YRange, w \in WRange, h \in HRange :
          /\ heap' = [heap EXCEPT
                         ![Parent] = bmp_plot_rect(heap[Parent], x, y, w, h, RectColour)]
          /\ Record("rect", [x |-> x, y |-> y, w |-> w, h |-> h, c |-> RectColour],
                    TRUE, 1, RectCalls(heap[Parent], x, y, w, h, RectColour),
                    <<>>, <<>>, <<>>, <<>>)

PlotResource ==
    /\ ~plotted /\ calls < MaxCalls
    /\ plotted' = TRUE
    /\ \E cid \in Ids, x \in CopyXRange, y \in CopyYRange,
          w \in CopyWRange, h \in CopyHRange :
          LET r == bmp_plot_resource(heap, Parent, cid, x, y, w, h)
          IN  /\ heap' = r.heap
              /\ Record("resource",
                        [pid |-> Parent, cid |-> cid, x |-> x, y |-> y,
                         w |-> w, h |-> h],
                        TRUE, 1, r.log, <<>>, <<>>, <<>>, <<>>)

PlotLine ==
    /\ ~plotted /\ calls < MaxCalls
    /\ plotted' = TRUE
    /\ \E x1 \in LineXRange, y1 \in LineYRange,
          x2 \in LineXRange \cup LineFarX, y2 \in LineYRange, p \in LinePRange :
          /\ IntegerLength(x2 - x1, y2 - y1)
          /\ LET r == bmp_plot_line(heap, Parent, x1, y1, x2, y2, LineColour, p)
             IN  /\ heap' = r.heap
                 /\ Record("line",
                           [x1 |-> x1, y1 |-> y1, x2 |-> x2, y2 |-> y2,
                            c |-> LineColour, p |-> p],
                           TRUE, r.unit, r.log, r.samples, r.step, <<>>, <<>>)

\* A shape call is modelled at its boundary with bmp_plot_line: the state
\* records the calls it issues, in order.  Their end points are fractions
\* and their lengths irrational, outside the exact arithmetic of
\* bmp_plot_line above, so the pixels those calls write are not computed
\* here; PlotLine models what one such call does.
PlotShape ==
    /\ ~plotted /\ calls < MaxCalls
    /\ plotted' = TRUE
    /\ \E sh \in Shapes, x \in ShapeXRange, y \in ShapeYRange,
          w \in ShapeWRange, h \in ShapeHRange, p \in ShapePRange :
          /\ UNCHANGED heap
          /\ Record(sh, [x |-> x, y |-> y, w |-> w, h |-> h,
                         c |-> ShapeColour, p |-> p],
                    TRUE, TableScale, <<>>, <<>>, <<>>, <<>>,
                    ShapeCalls(sh, x, y, w, h, ShapeColour, p))

PlotText ==
    /\ ~plotted /\ calls < MaxCalls
    /\ plotted' = TRUE
    /\ \E a \in TextInputs :
          LET r == bmp_plot_text(heap, Parent, FontAtlas, a.x, a.y, a.text,
                                 a.wrap, a.f, a.b)
          IN  /\ heap' = r.heap
              /\ Record("text", a, TRUE, 1, r.log, <<>>, <<>>, r.glyphs, <<>>)

InitLog ==
    /\ pre = heap
    /\ op = "none"
    /\ args = NoArgs
    /\ ret = TRUE
    /\ unit = 1
    /\ pixelCalls = <<>>
    /\ samples = <<>>
    /\ step = <<0, 0>>
    /\ glyphs = <<>>
    /\ lineCalls = <<>>
    /\ calls = 0
    /\ plotted = FALSE

\* the destination, and a source that is MaxH wide and MaxW high: narrower
\* and higher than the destination
InitHeap ==
    heap = [id \in Ids |->
              IF id = Parent THEN Gradient(MaxW, MaxH, 101)
              ELSE Gradient(MaxH, MaxW, 102)]

Init ==
    /\ InitHeap
    /\ font = [width |-> MaxFontW, height |-> MaxFontH]
    /\ InitLog

NextRect == PlotRect \/ PlotClear

SpecRect == Init /\ [][NextRect]_vars

NextResource == PlotResource \/ PlotClear

SpecResource == Init /\ [][NextResource]_vars

NextLine == PlotLine \/ PlotClear

SpecLine == Init /\ [][NextLine]_vars

NextShape == PlotShape \/ PlotClear

SpecShape == Init /\ [][NextShape]_vars

\* every glyph width up to MaxFontW
InitText ==
    /\ InitHeap
    /\ \E font_width \in 1 .. MaxFontW :
          font = [width |-> font_width, height |-> MaxFontH]
    /\ InitLog

NextText == PlotText \/ PlotClear

SpecText == InitText /\ [][NextText]_vars

\* every plot function
Next ==
    \/ PlotRect
    \/ PlotLine
    \/ PlotResource
    \/ PlotText
    \/ PlotShape
    \/ PlotClear

Spec == Init /\ [][Next]_vars

----------------------------------------------------------------------------
(* C1: bmp_plot_rect sets exactly the in-bounds pixels of                  *)
(* [x, x+w) x [y, y+h) to the colour and leaves every other pixel of the   *)
(* buffer (and the other resource) unchanged.                              *)

InRect(q, a) ==
    /\ a.x <= q[1] /\ q[1] < a.x + a.w
    /\ a.y <= q[2] /\ q[2] < a.y + a.h

C1_RectFillsExactly ==
    op = "rect" =>
        /\ heap[Parent].width = pre[Parent].width
        /\ heap[Parent].height = pre[Parent].height
        /\ \A q \in Pixels(pre[Parent]) :
              heap[Parent].data[q] =
                 IF InRect(q, args) THEN args.c ELSE pre[Parent].data[q]
        /\ heap[Child] = pre[Child]
        /\ ret = TRUE

\* a rectangle reaching past the left and the bottom edge that still
\* covers some pixels and leaves others alone
C1_Witness ==
    /\ op = "rect"
    /\ args.x < 0 /\ args.y + args.h > MaxH
    /\ \E q \in Pixels(heap[Parent]) : heap[Parent].data[q] = args.c
    /\ \E q \in Pixels(heap[Parent]) : heap[Parent].data[q] # args.c

----------------------------------------------------------------------------
(* C2 (as claimed): with distinct source and destination,                  *)
(* bmp_plot_resource writes exactly the in-destination pixels (x+i, y+j),  *)
(* 0 <= i < W, 0 <= j < H, each set to source pixel (i, j), where W is the *)
(* source width when w is -1 and otherwise w reduced to the nearest bound  *)
(* of [-1, source width] (H likewise).                                     *)

NearestBound(w, dim) == IF w < -1 THEN -1 ELSE IF w > dim THEN dim ELSE w

ClaimedSize(w, dim) == IF w = -1 THEN dim ELSE NearestBound(w, dim)

\* the destination is the copy of the W x H top-left region of the source
\* at the offset, clipped, and nothing else has changed
CopiedExactly(W, H) ==
    /\ heap[args.pid].width = pre[args.pid].width
    /\ heap[args.pid].height = pre[args.pid].height
    /\ \A q \in Pixels(pre[args.pid]) :
          LET i == q[1] - args.x
              j == q[2] - args.y
          IN  heap[args.pid].data[q] =
                 IF 0 <= i /\ i < W /\ 0 <= j /\ j < H
                 THEN pre[args.cid].data[<<i, j>>]
                 ELSE pre[args.pid].data[q]

C2_AsClaimed ==
    (op = "resource" /\ args.cid # args.pid) =>
        CopiedExactly(ClaimedSize(args.w, pre[args.cid].width),
                      ClaimedSize(args.h, pre[args.cid].height))

(* C2 (amended): the same, where W is the source width when w <= -1 and    *)
(* otherwise the smaller of w and the source width (H likewise).           *)

AmendedSize(w, dim) == IF w <= -1 THEN dim ELSE IF w > dim THEN dim ELSE w

C2_CopyWritesExactly ==
    (op = "resource" /\ args.cid # args.pid) =>
        /\ CopiedExactly(AmendedSize(args.w, pre[args.cid].width),
                         AmendedSize(args.h, pre[args.cid].height))
        /\ ret = TRUE

\* a copy with w below -1 that is clipped at the left edge, writes some
\* destination pixels and leaves others
C2_Witness ==
    /\ op = "resource" /\ args.cid # args.pid
    /\ args.w < -1 /\ args.h > 0 /\ args.x < 0
    /\ \E q \in Pixels(heap[Parent]) : heap[Parent].data[q] # pre[Parent].data[q]
    /\ \E q \in Pixels(heap[Parent]) : heap[Parent].data[q] = pre[Parent].data[q]

----------------------------------------------------------------------------
(* C3: bmp_plot_resource reads from a snapshot of the source: every pixel  *)
(* it writes at (x+i, y+j) is the value source pixel (i, j) had before the *)
(* call, also when source and destination are the same resource; a         *)
(* distinct source is unchanged by the call; and a later call that changes *)
(* one resource (bmp_plot_clear) leaves the other as the copy left it.     *)

C3_SnapshotIsolation ==
    /\ op = "resource" =>
          /\ \A k \in 1 .. Len(pixelCalls) :
                LET e == pixelCalls[k]
                IN  /\ e.c = pre[args.cid].data[<<e.x - args.x, e.y - args.y>>]
                    /\ InBounds(pre[args.pid], e.x, e.y, 1) =>
                          heap[args.pid].data[<<e.x, e.y>>] = e.c
          /\ args.cid # args.pid => heap[args.cid] = pre[args.cid]
    /\ op = "clear" => \A id \in Ids \ {args.id} : heap[id] = pre[id]

\* a copy of a resource onto itself at an offset, in which a pixel read
\* late in the call had been overwritten earlier in the call
C3_Witness ==
    /\ op = "resource" /\ args.cid = args.pid
    /\ \E k1, k2 \in 1 .. Len(pixelCalls) :
          /\ k1 < k2
          /\ pixelCalls[k1].x = pixelCalls[k2].x - args.x
          /\ pixelCalls[k1].y = pixelCalls[k2].y - args.y
          /\ InBounds(pre[Parent], pixelCalls[k1].x, pixelCalls[k1].y, 1)
          /\ pixelCalls[k1].c # pixelCalls[k2].c

----------------------------------------------------------------------------
(* C9 (as claimed): a point is passed to bmp_resource_set_pixel only if it *)
(* satisfies 0 <= x < width and 0 <= y < height of the resource written.   *)

\* the resource the last call writes to
Target == IF op = "clear" THEN args.id ELSE Parent

C9_AsClaimed ==
    \A k \in 1 .. Len(pixelCalls) :
        InBounds(pre[Target], pixelCalls[k].x, pixelCalls[k].y, unit)

(* C9 (amended): a point is passed to bmp_resource_set_pixel only if       *)
(* x < width and y < height; the operations do not test for negative       *)
(* coordinates, and such points reach bmp_resource_set_pixel, which        *)
(* ignores them: every pixel that changes is the pixel of an in-bounds     *)
(* point that was passed (no error, no wraparound).                        *)

C9_UpperBoundsTested ==
    /\ \A k \in 1 .. Len(pixelCalls) :
          /\ pixelCalls[k].x < pre[Target].width * unit
          /\ pixelCalls[k].y < pre[Target].height * unit
    /\ \A q \in Pixels(pre[Target]) :
          heap[Target].data[q] # pre[Target].data[q] =>
             \E k \in 1 .. Len(pixelCalls) :
                /\ InBounds(pre[Target], pixelCalls[k].x, pixelCalls[k].y, unit)
                /\ q = <<Floor(pixelCalls[k].x, unit), Floor(pixelCalls[k].y, unit)>>

\* a line that starts left of the buffer: its first point, with a negative
\* x, is passed on, and so is a later point inside the buffer
C9_Witness ==
    /\ op = "line"
    /\ \E k \in 1 .. Len(pixelCalls) : pixelCalls[k].x < 0
    /\ \E k \in 1 .. Len(pixelCalls) :
          InBounds(pre[Parent], pixelCalls[k].x, pixelCalls[k].y, unit)
    /\ heap # pre

----------------------------------------------------------------------------
(* C7 (as claimed): for an axis-aligned segment of integer length n > 0    *)
(* and any p, bmp_plot_line takes exactly ceil(n * p') samples, p' being p *)
(* clamped to [0.1, 2]; they start at (x1, y1), advance by 1/p' along the   *)
(* segment's axis toward the end point with the other coordinate constant, *)
(* and never pass the end point.                                           *)

Abs(a) == IF a < 0 THEN -a ELSE a
Sign(a) == IF a < 0 THEN -1 ELSE IF a > 0 THEN 1 ELSE 0

\* p (in tenths) clamped to [0.1, 2]
ClampedP(p) == IF p < 1 THEN 1 ELSE IF p > 20 THEN 20 ELSE p

\* ceil(n * p / 10)
CeilTenths(n, p) == CHOOSE k \in 0 .. n * p : 10 * k >= n * p /\ 10 * (k - 1) < n * p

AxisAligned ==
    /\ op = "line"
    /\ (args.x1 = args.x2) # (args.y1 = args.y2)

\* Refuted by the segment (0, y) - (50, y) with p = 1.1: the double 50 * 1.1
\* is 55.00000000000001 and the loop takes 56 samples, not ceil(55) = 55.
C7_AsClaimed ==
    AxisAligned =>
        LET dx == args.x2 - args.x1
            dy == args.y2 - args.y1
            n  == Abs(dx) + Abs(dy)
            p  == ClampedP(args.p)
        IN  /\ Len(samples) = CeilTenths(n, p)
            /\ samples[1] = <<args.x1 * unit, args.y1 * unit>>
            /\ \A i \in 1 .. Len(samples) - 1 :
                  /\ (samples[i + 1][1] - samples[i][1]) * p = 10 * unit * Sign(dx)
                  /\ (samples[i + 1][2] - samples[i][2]) * p = 10 * unit * Sign(dy)
            /\ \A i \in 1 .. Len(samples) :
                  /\ Sign(dx) * (args.x2 * unit - samples[i][1]) >= 0
                  /\ Sign(dy) * (args.y2 * unit - samples[i][2]) >= 0

----------------------------------------------------------------------------
(* C10 (as claimed): for a zero-length segment bmp_plot_line does not      *)
(* divide by zero; it draws the single point (x1, y1) or leaves the buffer *)
(* unchanged, passes no undefined coordinate to a pixel write, and returns *)
(* true.                                                                   *)

ZeroLength ==
    /\ op = "line"
    /\ args.x1 = args.x2 /\ args.y1 = args.y2

SinglePointOrNothing ==
    \/ heap = pre
    \/ /\ InBounds(pre[Parent], args.x1, args.y1, 1)
       /\ heap = [pre EXCEPT ![Parent].data[<<args.x1, args.y1>>] = args.c]

----------------------------------------------------------------------------
(* C8: each shape function has a closed point table (first entry = last    *)
(* entry) with coordinates in 0..512 and issues exactly one bmp_plot_line  *)
(* call per consecutive pair of entries, in table order (32 for the        *)
(* circle, 3 for the triangle, 7 for an arrow), with end points            *)
(* (px/512*w + x, py/512*h + y); so each call starts where the previous    *)
(* one ended, the last ends where the first started, and p is passed on    *)
(* unchanged.                                                              *)

TableOf(sh) ==
    CASE sh = "circle"      -> CirclePoints
      [] sh = "arrow_up"    -> ArrowUpPoints
      [] sh = "arrow_down"  -> ArrowDownPoints
      [] sh = "arrow_left"  -> ArrowLeftPoints
      [] sh = "arrow_right" -> ArrowRightPoints
      [] sh = "triangle"    -> TrianglePoints

ExpectedCalls(sh) ==
    IF sh = "circle" THEN 32 ELSE IF sh = "triangle" THEN 3 ELSE 7

\* table point t mapped into destination space, in units of 1/512
Mapped(t) == <<t[1] * args.w + 512 * args.x, t[2] * args.h + 512 * args.y>>

C8_ShapesAreClosedPolylines ==
    op \in Shapes =>
        LET T == TableOf(op)
            n == Len(lineCalls)
        IN  /\ T[1] = T[Len(T)]
            /\ \A i \in 1 .. Len(T) : T[i][1] \in 0 .. 512 /\ T[i][2] \in 0 .. 512
            /\ n = ExpectedCalls(op)
            /\ n = Len(T) - 1
            /\ \A i \in 1 .. n :
                  /\ <<lineCalls[i].x1, lineCalls[i].y1>> = Mapped(T[i])
                  /\ <<lineCalls[i].x2, lineCalls[i].y2>> = Mapped(T[i + 1])
                  /\ lineCalls[i].p = args.p
                  /\ lineCalls[i].c = args.c
            /\ \A i \in 1 .. n - 1 :
                  /\ lineCalls[i].x2 = lineCalls[i + 1].x1
                  /\ lineCalls[i].y2 = lineCalls[i + 1].y1
            /\ lineCalls[n].x2 = lineCalls[1].x1
            /\ lineCalls[n].y2 = lineCalls[1].y1
            /\ ret = TRUE

\* a circle of negative width at a negative offset, p above the clamp range
C8_Witness ==
    /\ op = "circle"
    /\ args.w < 0 /\ args.x < 0 /\ args.h > 0 /\ args.p > 20
    /\ Len(lineCalls) = 32

----------------------------------------------------------------------------
(* Layout of the last bmp_plot_text call *)

FontWidth  == FontAtlas.width \div 96
FontHeight == FontAtlas.height

NewlineCode(code) == code = 10 \/ code = 13

\* the newline codes before index i of the string
NewlinesBefore(i) == {m \in 1 .. i - 1 : NewlineCode(args.text[m])}

\* the index of the last newline code before index i, 0 if there is none
LastNewlineBefore(i) ==
    IF NewlinesBefore(i) = {} THEN 0
    ELSE CHOOSE m \in NewlinesBefore(i) : \A m2 \in NewlinesBefore(i) : m2 <= m

NoNewlines == \A i \in 1 .. Len(args.text) : ~NewlineCode(args.text[i])

\* every pixel write falls into the cell of some glyph that was drawn
WritesOnlyInGlyphs ==
    \A k \in 1 .. Len(pixelCalls) :
        \E j \in 1 .. Len(glyphs) :
            /\ glyphs[j].x <= pixelCalls[k].x
            /\ pixelCalls[k].x < glyphs[j].x + FontWidth
            /\ glyphs[j].y <= pixelCalls[k].y
            /\ pixelCalls[k].y < glyphs[j].y + FontHeight

----------------------------------------------------------------------------
(* C4: with word-wrap disabled, a newline code (10 or 13) draws nothing    *)
(* and every other character's glyph origin is                             *)
(* (x + font_width * k, y + font_height * n): n the number of newline      *)
(* codes before it, k the number of characters between the last newline    *)
(* before it (or the string start) and it.                                 *)

C4_NoWrapLayout ==
    (op = "text" /\ ~args.wrap) =>
        LET drawn == {i \in 1 .. Len(args.text) : ~NewlineCode(args.text[i])}
        IN  /\ Len(glyphs) = Cardinality(drawn)
            /\ \A j \in 1 .. Len(glyphs) :
                  LET i == glyphs[j].index
                  IN  /\ i \in drawn
                      /\ j > 1 => glyphs[j - 1].index < i
                      /\ glyphs[j].code = args.text[i]
                      /\ glyphs[j].x =
                            args.x + FontWidth * (i - LastNewlineBefore(i) - 1)
                      /\ glyphs[j].y =
                            args.y + FontHeight * Cardinality(NewlinesBefore(i))
            /\ WritesOnlyInGlyphs
            /\ ret = TRUE

\* "A\nA" without wrap: two glyphs, the second one row of font_height
\* lower and at the anchor's x
C4_Witness ==
    /\ op = "text" /\ ~args.wrap
    /\ args.text = <<65, 10, 65>>
    /\ Len(glyphs) = 2
    /\ glyphs[2].y - glyphs[1].y = FontHeight
    /\ glyphs[2].x = args.x
    /\ pixelCalls # <<>>

----------------------------------------------------------------------------
(* C5 (as claimed): with word-wrap enabled the cursor wraps (x_offset back *)
(* to the anchor x, y_offset down by font_height) before a glyph is drawn  *)
(* exactly when x_offset + font_width > destination width; so for every    *)
(* destination narrower than 2 * font_width, every anchor and every string *)
(* of non-newline characters, no two glyphs share a y-origin.              *)

\* the cursor before glyph j of a string without newline codes
CursorX(j) == IF j = 1 THEN args.x ELSE glyphs[j - 1].x + FontWidth
CursorY(j) == IF j = 1 THEN args.y ELSE glyphs[j - 1].y

WrapsExactlyAtRightEdge ==
    /\ Len(glyphs) = Len(args.text)
    /\ \A j \in 1 .. Len(glyphs) :
          /\ glyphs[j].wrapped <=> (CursorX(j) + FontWidth > pre[Parent].width)
          /\ IF CursorX(j) + FontWidth > pre[Parent].width
             THEN glyphs[j].x = args.x /\ glyphs[j].y = CursorY(j) + FontHeight
             ELSE glyphs[j].x = CursorX(j) /\ glyphs[j].y = CursorY(j)

OneGlyphPerRow ==
    \A j1, j2 \in 1 .. Len(glyphs) : j1 # j2 => glyphs[j1].y # glyphs[j2].y

WrappedText == op = "text" /\ args.wrap /\ NoNewlines

C5_AsClaimed ==
    WrappedText =>
        /\ WrapsExactlyAtRightEdge
        /\ pre[Parent].width < 2 * FontWidth => OneGlyphPerRow

(* C5 (amended): the same, for every anchor x with                         *)
(* x + 2 * font_width > destination width (every x >= 0 among them).       *)

C5_WrapOneGlyphPerRow ==
    WrappedText =>
        /\ WrapsExactlyAtRightEdge
        /\ (/\ pre[Parent].width < 2 * FontWidth
            /\ args.x + 2 * FontWidth > pre[Parent].width) => OneGlyphPerRow

\* three characters at anchor x = 0 on a destination narrower than two
\* glyphs: three rows
C5_Witness ==
    /\ WrappedText
    /\ pre[Parent].width < 2 * FontWidth
    /\ args.x = 0
    /\ Len(glyphs) = 3
    /\ glyphs[1].y < glyphs[2].y /\ glyphs[2].y < glyphs[3].y
    /\ ~glyphs[1].wrapped /\ glyphs[2].wrapped

----------------------------------------------------------------------------
(* C6 (as claimed): a pure white atlas pixel is written as (fr, fg, fb) if *)
(* all three foreground channels are non-negative and otherwise the        *)
(* destination pixel is left untouched; a pure black atlas pixel likewise  *)
(* with (br, bg, bb); any other atlas colour is written unchanged.         *)

NonNegative(c) == c[1] >= 0 /\ c[2] >= 0 /\ c[3] >= 0

ClaimedColour(a, f, b) ==
    IF a = <<255, 255, 255>>
    THEN IF NonNegative(f) THEN [skip |-> FALSE, c |-> f]
         ELSE [skip |-> TRUE, c |-> a]
    ELSE IF a = <<0, 0, 0>>
         THEN IF NonNegative(b) THEN [skip |-> FALSE, c |-> b]
              ELSE [skip |-> TRUE, c |-> a]
         ELSE [skip |-> FALSE, c |-> a]

\* the atlas cell of a char code
CellOf(code) == IF code >= 32 /\ code <= 126 THEN code - 32 ELSE 95

WritesAt(x, y) ==
    Cardinality({k \in 1 .. Len(pixelCalls) :
                    pixelCalls[k].x = x /\ pixelCalls[k].y = y})

C6_AsClaimed ==
    op = "text" =>
        \A j \in 1 .. Len(glyphs) :
            \A lx \in 0 .. FontWidth - 1, ly \in 0 .. FontHeight - 1 :
                LET x == glyphs[j].x + lx
                    y == glyphs[j].y + ly
                    a == FontAtlas.data[<<CellOf(glyphs[j].code) * FontWidth + lx, ly>>]
                    e == ClaimedColour(a, args.f, args.b)
                IN  InBounds(pre[Parent], x, y, 1) =>
                       IF e.skip
                       THEN /\ WritesAt(x, y) = 0
                            /\ heap[Parent].data[<<x, y>>] = pre[Parent].data[<<x, y>>]
                       ELSE /\ WritesAt(x, y) = 1
                            /\ heap[Parent].data[<<x, y>>] = e.c

====
